---- MODULE Spec2Model ----
(***************************************************************************)
(* Model of build_calendars.py: a sheet of rows (one per event, grouped by *)
(* calendar name) is turned into one feed per calendar, a manifest and a   *)
(* landing page.  Text is a sequence of one-character strings, so that     *)
(* strip(), lower() and the slug regex are computed, not assumed.  A       *)
(* timestamp is a whole number of hours; a date is a whole number of days. *)
(***************************************************************************)
EXTENDS Integers, Sequences, FiniteSets, TLC

\* ------------------------------------------------------------------ bounds
\* Days a date cell may name: 0..MaxDay.
MaxDay == 1
\* Longest calendar name drawn for the slug inputs.
MaxNameLen == 4
\* Most rows of a sheet in the ordering / filtering inputs.
MaxRows == 3

\* ------------------------------------------------------------- constants
DEFAULT_TIMED_DURATION_HOURS == 1
\* pd.Timedelta(days=1), in hours
HoursPerDay == 24

\* ------------------------------------------------------------------- text
UpperAlpha == <<"A","B","C","D","E","F","G","H","I","J","K","L","M",
                "N","O","P","Q","R","S","T","U","V","W","X","Y","Z">>
LowerAlpha == <<"a","b","c","d","e","f","g","h","i","j","k","l","m",
                "n","o","p","q","r","s","t","u","v","w","x","y","z">>
Digits == {"0","1","2","3","4","5","6","7","8","9"}

\* str.lower() on one character
LowerMap ==
  [c \in {UpperAlpha[i] : i \in 1..Len(UpperAlpha)} |->
     LowerAlpha[CHOOSE i \in 1..Len(UpperAlpha) : UpperAlpha[i] = c]]

LowerChar(c) == IF c \in DOMAIN LowerMap THEN LowerMap[c] ELSE c

Lower(s) == [i \in 1..Len(s) |-> LowerChar(s[i])]

\* number of leading / trailing characters of s that satisfy In(_)
RECURSIVE LeadCount(_, _)
LeadCount(s, set) ==
  IF s = <<>> \/ Head(s) \notin set THEN 0 ELSE 1 + LeadCount(Tail(s), set)

RECURSIVE TrailCount(_, _)
TrailCount(s, set) ==
  IF s = <<>> \/ s[Len(s)] \notin set THEN 0
  ELSE 1 + TrailCount(SubSeq(s, 1, Len(s) - 1), set)

\* str.strip(chars)
StripChars(s, set) ==
  IF LeadCount(s, set) = Len(s) THEN <<>>
  ELSE SubSeq(s, LeadCount(s, set) + 1, Len(s) - TrailCount(s, set))

Whitespace == {" "}

\* str.strip()
Strip(s) == StripChars(s, Whitespace)

\* the character class [a-z0-9] of _slug_re is the complement of this set
SlugChars == {LowerAlpha[i] : i \in 1..Len(LowerAlpha)} \cup Digits

\* SlugSub for the pattern [^a-z0-9] (no "+"): one "-" per character
RECURSIVE SlugSub_PerChar(_)
SlugSub_PerChar(s) ==
  IF s = <<>> THEN <<>>
  ELSE IF Head(s) \in SlugChars THEN <<Head(s)>> \o SlugSub_PerChar(Tail(s))
  ELSE <<"-">> \o SlugSub_PerChar(Tail(s))

\* _slug_re.sub("-", s): every maximal run outside [a-z0-9] becomes one "-"
RECURSIVE SlugSub(_)
SlugSub(s) ==
  IF s = <<>> THEN <<>>
  ELSE IF Head(s) \in SlugChars THEN <<Head(s)>> \o SlugSub(Tail(s))
  ELSE LET others == {s[i] : i \in 1..Len(s)} \ SlugChars
       IN <<"-">> \o SlugSub(SubSeq(s, LeadCount(s, others) + 1, Len(s)))

\* ---------------------------------------------------------- python values
\* A cell, or any value the script handles: None, a float NaN (an empty
\* cell as read_csv gives it), a str, or text that parses to a timestamp
\* (kind "dt", v = hours) or to a time of day (kind "tm", v = hour).
PyNone == [k |-> "none", s |-> <<>>, v |-> 0]
NaN == [k |-> "nan", s |-> <<>>, v |-> 0]
Str(s) == [k |-> "str", s |-> s, v |-> 0]
DtText(d, h) == [k |-> "dt", s |-> <<>>, v |-> d * HoursPerDay + h]
TmText(h) == [k |-> "tm", s |-> <<>>, v |-> h]

\* an optional Timestamp: None, or a number of hours
None == [some |-> FALSE, v |-> 0]
Some(t) == [some |-> TRUE, v |-> t]

\* str(v) for the values a flag cell can hold
PyStr(x) ==
  CASE x.k = "none" -> <<"N","o","n","e">>
    [] x.k = "nan" -> <<"n","a","n">>
    [] OTHER -> x.s

\* ---------------------------------------------------------------- helpers
slugify(name) ==
  LET s0 == IF name.k = "str" THEN name.s ELSE <<>>
      s1 == Lower(Strip(s0))
      s2 == StripChars(SlugSub(s1), {"-"})
  IN IF s2 = <<>> THEN <<"c","a","l","e","n","d","a","r">> ELSE s2

clean_str(x) ==
  IF x.k \in {"none", "nan"} THEN <<>>
  ELSE LET s == Strip(PyStr(x))
       IN IF Lower(s) = <<"n","a","n">> THEN <<>> ELSE s

parse_dt(x) ==
  IF x.k = "dt" THEN Some(x.v) ELSE None

\* Timestamp.date(), in days
DateOf(t) == t \div HoursPerDay

\* Timestamp.normalize(): the same date at midnight
Normalize(t) == DateOf(t) * HoursPerDay

is_midnight(dt) == dt.some /\ dt.v % HoursPerDay = 0

\* A uid is a record: the row's own text, or the digest of the formatted
\* string "title|start|end|extra".  The digest is kept as the tuple of its
\* four inputs (md5 taken as injective on them).
SuppliedUid(text) ==
  [derived |-> FALSE, text |-> text, title |-> <<>>, start |-> None, end |-> None, extra |-> <<>>]

make_uid(title, start, end, extra) ==
  [derived |-> TRUE, text |-> <<>>, title |-> title, start |-> start, end |-> end, extra |-> extra]

combine_date_time(date_val, time_val) ==
  LET d == parse_dt(date_val)
  IN IF ~d.some THEN None
     ELSE IF time_val.k \in {"none", "nan"} \/ Strip(PyStr(time_val)) = <<>>
          THEN Some(Normalize(d.v))
     ELSE IF time_val.k # "tm" THEN Some(Normalize(d.v))
     ELSE Some(Normalize(d.v) + time_val.v)

\* ---------------------------------------------------------------- headers
N_Calendar == <<"C","a","l","e","n","d","a","r">>
N_Calendar_Name == <<"C","a","l","e","n","d","a","r"," ","N","a","m","e">>
N_Feed == <<"F","e","e","d">>
N_Title == <<"T","i","t","l","e">>
N_Event == <<"E","v","e","n","t">>
N_Name == <<"N","a","m","e">>
N_Start == <<"S","t","a","r","t">>
N_Start_Date == <<"S","t","a","r","t"," ","D","a","t","e">>
N_Start_Time == <<"S","t","a","r","t"," ","T","i","m","e">>
N_End == <<"E","n","d">>
N_End_Date == <<"E","n","d"," ","D","a","t","e">>
N_End_Time == <<"E","n","d"," ","T","i","m","e">>
N_Location == <<"L","o","c","a","t","i","o","n">>
N_Place == <<"P","l","a","c","e">>
N_Room == <<"R","o","o","m">>
N_Description == <<"D","e","s","c","r","i","p","t","i","o","n">>
N_Details == <<"D","e","t","a","i","l","s">>
N_Notes == <<"N","o","t","e","s">>
N_URL == <<"U","R","L">>
N_Link == <<"L","i","n","k">>
N_UID == <<"U","I","D">>
N_Uid == <<"U","i","d">>
N_All_Day == <<"A","l","l"," ","D","a","y">>
N_All_dash_day == <<"A","l","l","-","d","a","y">>
N_AllDay == <<"A","l","l","D","a","y">>
N_Transparent == <<"T","r","a","n","s","p","a","r","e","n","t">>

\* "no column": first_col's None.  The script tests it with "if col", which
\* an empty header would fail as well, and no candidate name is empty.
NoCol == <<>>

Range(q) == {q[i] : i \in 1..Len(q)}

\* the dict {c.strip().lower(): c for c in df.columns}: a later column with
\* the same key replaces an earlier one
ColsKeys(cols) == {Lower(Strip(cols[i])) : i \in 1..Len(cols)}

ColsAt(cols, key) ==
  LET at == {i \in 1..Len(cols) : Lower(Strip(cols[i])) = key}
  IN cols[CHOOSE i \in at : \A j \in at : j <= i]

first_col(cols, names) ==
  LET keys == ColsKeys(cols)
      hits == {n \in 1..Len(names) : Lower(Strip(names[n])) \in keys}
  IN IF hits = {} THEN NoCol
     ELSE LET n == CHOOSE m \in hits : \A o \in hits : m <= o
          IN ColsAt(cols, Lower(Strip(names[n])))

\* lines 108-121
ResolveColumns(cols) ==
  [calendar |-> first_col(cols, <<N_Calendar, N_Calendar_Name, N_Feed>>),
   title    |-> first_col(cols, <<N_Title, N_Event, N_Name>>),
   start    |-> first_col(cols, <<N_Start>>),
   start_d  |-> first_col(cols, <<N_Start_Date>>),
   start_t  |-> first_col(cols, <<N_Start_Time>>),
   end      |-> first_col(cols, <<N_End>>),
   end_d    |-> first_col(cols, <<N_End_Date>>),
   end_t    |-> first_col(cols, <<N_End_Time>>),
   loc      |-> first_col(cols, <<N_Location, N_Place, N_Room>>),
   desc     |-> first_col(cols, <<N_Description, N_Details, N_Notes>>),
   url      |-> first_col(cols, <<N_URL, N_Link>>),
   uid      |-> first_col(cols, <<N_UID, N_Uid>>),
   allday   |-> first_col(cols, <<N_All_Day, N_All_dash_day, N_AllDay>>),
   transp   |-> first_col(cols, <<N_Transparent>>)]

NoColumns ==
  [calendar |-> NoCol, title |-> NoCol, start |-> NoCol, start_d |-> NoCol,
   start_t |-> NoCol, end |-> NoCol, end_d |-> NoCol, end_t |-> NoCol,
   loc |-> NoCol, desc |-> NoCol, url |-> NoCol, uid |-> NoCol,
   allday |-> NoCol, transp |-> NoCol]

\* MissingKeys without the start check
MissingKeys_NoStartCheck(c) ==
  (IF c.calendar = NoCol THEN <<"Calendar">> ELSE <<>>)
  \o (IF c.title = NoCol THEN <<"Title/Event/Name">> ELSE <<>>)

\* lines 123-127
MissingKeys(c) ==
  (IF c.calendar = NoCol THEN <<"Calendar">> ELSE <<>>)
  \o (IF c.title = NoCol THEN <<"Title/Event/Name">> ELSE <<>>)
  \o (IF c.start = NoCol /\ c.start_d = NoCol
      THEN <<"Start OR (Start Date + optional Start Time)">> ELSE <<>>)

\* r.get(c): the cell, or None when there is no such column
Get(r, c) == IF c \in DOMAIN r THEN r[c] ELSE PyNone

\* lines 132-134: df[c] = df[c].apply(clean_str) for the text columns found
CleanRow(r, c) ==
  LET text == {c.calendar, c.title, c.loc, c.desc, c.url, c.uid} \ {NoCol}
  IN [h \in DOMAIN r |-> IF h \in text THEN Str(clean_str(r[h])) ELSE r[h]]

\* Dedupe keeping each element at its last position instead of its first
RECURSIVE Dedupe_LastSeen(_)
Dedupe_LastSeen(q) ==
  IF q = <<>> THEN <<>>
  ELSE LET rest == Dedupe_LastSeen(Tail(q))
       IN IF Head(q) \in Range(rest) THEN rest ELSE <<Head(q)>> \o rest

\* list(dict.fromkeys(q)): the distinct elements in first-seen order
RECURSIVE Dedupe(_)
Dedupe(q) ==
  IF q = <<>> THEN <<>>
  ELSE LET front == Dedupe(SubSeq(q, 1, Len(q) - 1))
       IN IF q[Len(q)] \in Range(front) THEN front ELSE Append(front, q[Len(q)])

\* df[df[col_calendar] == cal_name]: the index labels of the matching rows
RECURSIVE Subset(_, _, _)
Subset(rows, c, cal_name) ==
  IF rows = <<>> THEN <<>>
  ELSE Subset(SubSeq(rows, 1, Len(rows) - 1), c, cal_name)
       \o (IF rows[Len(rows)][c].s = cal_name THEN <<Len(rows)>> ELSE <<>>)
\* ------------------------------------------------------------ one row
Truthy == {<<"t","r","u","e">>, <<"1">>, <<"y","e","s">>, <<"y">>}

\* str(v).strip().lower() in ("true", "1", "yes", "y")
IsTruthy(x) == Lower(Strip(PyStr(x))) \in Truthy

\* lines 164-175: the start and end timestamps of a row
StartOf(r, c) ==
  IF c.start # NoCol THEN parse_dt(Get(r, c.start))
  ELSE IF c.start_d # NoCol THEN combine_date_time(Get(r, c.start_d), Get(r, c.start_t))
  ELSE None

EndOf(r, c) ==
  IF c.end # NoCol THEN parse_dt(Get(r, c.end))
  ELSE IF c.end_d # NoCol THEN combine_date_time(Get(r, c.end_d), Get(r, c.end_t))
  ELSE None

\* lines 182-190
AllDayFlag(r, c, start_dt, end_dt) ==
  LET flag == IF c.allday # NoCol THEN IsTruthy(Get(r, c.allday)) ELSE FALSE
  IN IF ~flag
     THEN (start_dt.some /\ is_midnight(start_dt)) /\ (~end_dt.some \/ is_midnight(end_dt))
     ELSE TRUE

\* lines 196-205: begin and end are dates; start_dt and end_dt are the
\* locals as the branch leaves them
AllDayFinalize(start_dt, end_dt) ==
  LET s == IF ~start_dt.some /\ end_dt.some THEN end_dt ELSE start_dt
  IN [begin |-> DateOf(s.v),
      end |-> IF ~end_dt.some \/ DateOf(end_dt.v) <= DateOf(s.v)
              THEN DateOf(s.v + HoursPerDay)
              ELSE DateOf(end_dt.v),
      start_dt |-> s, end_dt |-> end_dt]

\* TimedFinalize with "<" for "<=": an end equal to the start is kept
TimedFinalize_KeepsEqual(start_dt, end_dt) ==
  LET s == IF ~start_dt.some /\ end_dt.some
           THEN Some(end_dt.v - DEFAULT_TIMED_DURATION_HOURS)
           ELSE start_dt
      e == IF ~end_dt.some \/ end_dt.v < s.v
           THEN Some(s.v + DEFAULT_TIMED_DURATION_HOURS)
           ELSE end_dt
  IN [begin |-> s.v, end |-> e.v, start_dt |-> s, end_dt |-> e]

\* lines 207-213: begin and end are timestamps
TimedFinalize(start_dt, end_dt) ==
  LET s == IF ~start_dt.some /\ end_dt.some
           THEN Some(end_dt.v - DEFAULT_TIMED_DURATION_HOURS)
           ELSE start_dt
      e == IF ~end_dt.some \/ end_dt.v <= s.v
           THEN Some(s.v + DEFAULT_TIMED_DURATION_HOURS)
           ELSE end_dt
  IN [begin |-> s.v, end |-> e.v, start_dt |-> s, end_dt |-> e]

\* clean_str(cell) or None, for a column that was found
OptText(r, col) ==
  IF col = NoCol \/ clean_str(Get(r, col)) = <<>> THEN PyNone
  ELSE Str(clean_str(Get(r, col)))

\* lines 220-221
UidOf(r, c, title, start_dt, end_dt, location) ==
  LET uid == IF c.uid # NoCol THEN clean_str(Get(r, c.uid)) ELSE <<>>
  IN IF uid # <<>> THEN SuppliedUid(uid)
     ELSE make_uid(title, start_dt, end_dt, IF location.k = "str" THEN location.s ELSE <<>>)

\* TransparentOf without strip() and lower() on the cell text
TransparentOf_Verbatim(r, c) ==
  IF c.transp # NoCol
  THEN (IF PyStr(Get(r, c.transp)) \in Truthy THEN "true" ELSE "false")
  ELSE "unset"

\* lines 224-226: "unset" is Event()'s default, None
TransparentOf(r, c) ==
  IF c.transp # NoCol
  THEN (IF IsTruthy(Get(r, c.transp)) THEN "true" ELSE "false")
  ELSE "unset"

\* lines 192-226: the Event of a row that passed the two filters; idx is the
\* row's index label in the sheet
BuildEvent(r, c, idx) ==
  LET title == clean_str(Get(r, c.title))
      allday == AllDayFlag(r, c, StartOf(r, c), EndOf(r, c))
      fin == IF allday THEN AllDayFinalize(StartOf(r, c), EndOf(r, c))
             ELSE TimedFinalize(StartOf(r, c), EndOf(r, c))
      location == OptText(r, c.loc)
  IN [idx |-> idx, name |-> title, all_day |-> allday,
      begin |-> fin.begin, end |-> fin.end,
      location |-> location,
      description |-> OptText(r, c.desc),
      url |-> OptText(r, c.url),
      uid |-> UidOf(r, c, title, fin.start_dt, fin.end_dt, location),
      transparent |-> TransparentOf(r, c)]

\* RowSkipped without the start/end filter
RowSkipped_TitleOnly(r, c) ==
  clean_str(Get(r, c.title)) = <<>>

\* lines 159-179: whether the row is skipped
RowSkipped(r, c) ==
  \/ clean_str(Get(r, c.title)) = <<>>
  \/ (~StartOf(r, c).some /\ ~EndOf(r, c).some)

\* lines 233-237
RelIcs(slug) ==
  <<"/","c","a","l","e","n","d","a","r","s","/">> \o slug \o <<".","i","c","s">>

\* ------------------------------------------------------------------ state
VARIABLES
  pc,                 \* where the script is
  columns,            \* df.columns, as loaded
  sheet,              \* the rows as loaded (never written)
  df,                 \* the rows; the text columns are cleaned in place
  col,                \* col_calendar, col_title, ...
  missing_keys,
  cal_order, ci,      \* the calendar loop and its position
  subset, ri,         \* the row loop and its position
  cal,                \* the Calendar being filled
  created, total_events,
  manifest, counts, per_calendar_debug,
  files,              \* the .ics files on disk: path -> Calendar written
  feeds,              \* every Calendar serialised so far, in order (history)
  manifest_file,      \* calendars.json: <<>> until written, then <<manifest>>
  index_written,      \* index.html
  exit_code           \* -1 while running

vars == <<pc, columns, sheet, df, col, missing_keys, cal_order, ci, subset, ri,
          cal, created, total_events, manifest, counts, per_calendar_debug,
          files, feeds, manifest_file, index_written, exit_code>>

NoCalendar == [name |-> <<>>, events |-> <<>>]

EmptyMap == [x \in {} |-> 0]

\* the state after df = pd.read_csv(...), for one sheet
InitSheet(sh) ==
  /\ pc = "resolve"
  /\ columns = sh.columns
  /\ sheet = sh.rows
  /\ df = sh.rows
  /\ col = NoColumns
  /\ missing_keys = <<>>
  /\ cal_order = <<>>
  /\ ci = 1
  /\ subset = <<>>
  /\ ri = 1
  /\ cal = NoCalendar
  /\ created = 0
  /\ total_events = 0
  /\ manifest = <<>>
  /\ counts = EmptyMap
  /\ per_calendar_debug = <<>>
  /\ files = EmptyMap
  /\ feeds = <<>>
  /\ manifest_file = <<>>
  /\ index_written = FALSE
  /\ exit_code = -1

\* ----------------------------------------------------------------- sheets
\* Headers as a sheet may spell them, and cell texts.
H_FEED == <<" ","F","E","E","D"," ">>
H_name == <<"n","a","m","e">>
H_Other == <<"O","t","h","e","r">>

T_TRUE == <<"T","R","U","E">>
T_Yes == <<" ","Y","e","s"," ">>
T_Y == <<"Y">>
T_1 == <<"1">>
T_1_0 == <<"1",".","0">>
T_no == <<"n","o">>
T_FALSE == <<"F","A","L","S","E">>
T_0 == <<"0">>
T_free == <<"f","r","e","e">>
T_busy == <<"b","u","s","y">>
T_opaque == <<"o","p","a","q","u","e">>
T_blank == <<" ">>
T_garbage == <<"g","a","r","b","a","g","e">>
T_Nan == <<"N","a","n">>

\* the field of a row template that a header's cell is taken from
FieldOf(h) ==
  CASE h = N_Calendar -> "calendar" [] h = H_FEED -> "feed"
    [] h = N_Title -> "title" [] h = H_name -> "name"
    [] h = N_Start -> "start" [] h = N_End -> "end"
    [] h = N_Start_Date -> "start_date" [] h = N_Start_Time -> "start_time"
    [] h = N_End_Date -> "end_date" [] h = N_End_Time -> "end_time"
    [] h = N_Location -> "location" [] h = N_UID -> "uid"
    [] h = N_All_Day -> "all_day" [] h = N_Transparent -> "transparent"
    [] OTHER -> "other"

\* a sheet with the given columns; each row holds the template's cells
Sheet(cols, templates) ==
  [columns |-> cols,
   rows |-> [i \in 1..Len(templates) |->
               [h \in Range(cols) |-> templates[i][FieldOf(h)]]]]

SeqsUpTo(S, n) == UNION {[1..k -> S] : k \in 0..n}

\* the subsequence of q at the positions in P
RECURSIVE Pick(_, _)
Pick(q, P) ==
  IF q = <<>> THEN <<>>
  ELSE Pick(SubSeq(q, 1, Len(q) - 1), P) \o (IF Len(q) \in P THEN <<q[Len(q)]>> ELSE <<>>)

\* a date-time cell: empty, unparseable, or a day in 0..MaxDay at 00:00,
\* 09:00 or 23:00
TimeCells ==
  {NaN, Str(T_garbage)} \cup {DtText(d, h) : d \in 0..MaxDay, h \in {0, 9, 23}}

TimeOfDayCells == {NaN, Str(T_blank), Str(T_garbage), TmText(0), TmText(9)}

FlagCells ==
  {NaN, Str(T_TRUE), Str(T_Yes), Str(T_Y), Str(T_1), Str(T_1_0), Str(T_no),
   Str(T_FALSE), Str(T_0), Str(T_free), Str(T_busy), Str(N_Transparent),
   Str(T_opaque), Str(T_blank)}

\* any choice of headers (in sheet order), one ordinary row
CfgHeaders == <<N_Calendar, H_FEED, N_Title, H_name, N_Start, N_Start_Date, N_End, H_Other>>

CfgSheets ==
  {Sheet(Pick(CfgHeaders, P),
         <<[calendar |-> Str(<<"a">>), feed |-> Str(<<"b">>), title |-> Str(<<"t">>),
            name |-> Str(<<"n">>), start |-> DtText(0, 9), start_date |-> DtText(0, 0),
            end |-> NaN, other |-> Str(<<"x">>)]>>)
     : P \in SUBSET (1..Len(CfgHeaders))}

\* up to MaxRows rows over a few calendar names, each row valid or not:
\* "a" and " a" are one name once cleaned, "a" and "A" are two names with
\* one slug, an empty cell and "Nan" are no name
OrderNames == {Str(<<"a">>), Str(<<"A">>), Str(<<" ","a">>), Str(<<"b">>), Str(T_Nan), NaN}

OrderRows ==
  [calendar : OrderNames, title : {Str(<<"t">>)}, start : {DtText(0, 9)}]
  \cup [calendar : {Str(<<"a">>), Str(<<"A">>)}, title : {NaN}, start : {DtText(0, 9)}]
  \cup [calendar : {Str(<<"a">>)}, title : {Str(T_Nan)}, start : {DtText(0, 9)}]
  \cup [calendar : {Str(<<"a">>)}, title : {Str(<<" ","t">>)}, start : {NaN}]

OrderSheets ==
  {Sheet(<<N_Calendar, N_Title, N_Start>>, q) : q \in SeqsUpTo(OrderRows, MaxRows)}

\* one row, every pairing of start and end cells, with and without a flag
TimeRows ==
  [calendar : {Str(<<"a">>)}, title : {Str(<<"t">>)},
   start : TimeCells, end : TimeCells, all_day : FlagCells \ {Str(T_free), Str(T_busy), Str(N_Transparent), Str(T_opaque), Str(T_0)}]

TimeSheets ==
  {Sheet(cols, <<r>>) :
     cols \in {<<N_Calendar, N_Title, N_Start, N_End, N_All_Day>>,
               <<N_Calendar, N_Title, N_Start, N_End>>},
     r \in TimeRows}

\* one row with split date and time columns
SplitRows ==
  [calendar : {Str(<<"a">>)}, title : {Str(<<"t">>)},
   start : {DtText(0, 9)},
   start_date : TimeCells, start_time : TimeOfDayCells,
   end_date : {NaN, DtText(0, 0), DtText(0, 9), DtText(1, 0)},
   end_time : {NaN, TmText(0), TmText(9)}]

SplitSheets ==
  {Sheet(cols, <<r>>) :
     cols \in {<<N_Calendar, N_Title, N_Start_Date, N_Start_Time, N_End_Date, N_End_Time>>,
               <<N_Calendar, N_Title, N_Start_Date, N_End_Date>>,
               <<N_Calendar, N_Title, N_Start, N_Start_Date, N_Start_Time, N_End_Date, N_End_Time>>},
     r \in SplitRows}

\* two rows of one calendar, with uid and location columns
UidRows ==
  [calendar : {Str(<<"a">>)}, title : {Str(<<"t">>)},
   start : {DtText(0, 0), DtText(0, 9)},
   end : {NaN, DtText(0, 9), DtText(1, 0)},
   all_day : {NaN, Str(T_Yes)},
   uid : {NaN, Str(<<"u">>)},
   location : {NaN, Str(<<"r">>)}]

UidSheets ==
  {Sheet(<<N_Calendar, N_Title, N_Start, N_End, N_All_Day, N_UID, N_Location>>, <<r1, r2>>) :
     r1 \in UidRows, r2 \in UidRows}

\* one row, with and without a Transparent column
TranspRows ==
  [calendar : {Str(<<"a">>)}, title : {Str(<<"t">>)}, start : {DtText(0, 9)},
   transparent : FlagCells]

TranspSheets ==
  {Sheet(cols, <<r>>) :
     cols \in {<<N_Calendar, N_Title, N_Start, N_Transparent>>, <<N_Calendar, N_Title, N_Start>>},
     r \in TranspRows}

\* one row whose calendar name is any text of up to MaxNameLen characters
NameChars == {"a", "N", "1", " ", "-", "!"}

Names == SeqsUpTo(NameChars, MaxNameLen)

SlugSheets ==
  {Sheet(<<N_Calendar, N_Title, N_Start>>,
         <<[calendar |-> Str(n), title |-> Str(<<"t">>), start |-> DtText(0, 9)]>>)
     : n \in Names}

Sheets ==
  CfgSheets \cup OrderSheets \cup TimeSheets \cup SplitSheets \cup UidSheets
  \cup TranspSheets \cup SlugSheets

Init == \E sh \in Sheets : InitSheet(sh)

\* ---------------------------------------------------------------- actions
\* lines 108-127
ResolveHeaders ==
  /\ pc = "resolve"
  /\ col' = ResolveColumns(columns)
  /\ missing_keys' = MissingKeys(col')
  /\ pc' = "checked"
  /\ UNCHANGED <<feeds, columns, sheet, df, cal_order, ci, subset, ri, cal, created,
                 total_events, manifest, counts, per_calendar_debug, files,
                 manifest_file, index_written, exit_code>>

\* lines 128-129: raise SystemExit(message)
ConfigError ==
  /\ pc = "checked"
  /\ missing_keys # <<>>
  /\ pc' = "exit"
  /\ exit_code' = 1
  /\ UNCHANGED <<feeds, columns, sheet, df, col, missing_keys, cal_order, ci, subset, ri,
                 cal, created, total_events, manifest, counts, per_calendar_debug,
                 files, manifest_file, index_written>>

\* lines 131-142
Prepare ==
  /\ pc = "checked"
  /\ missing_keys = <<>>
  /\ df' = [i \in 1..Len(df) |-> CleanRow(df[i], col)]
  /\ cal_order' = Dedupe([i \in 1..Len(df) |-> df'[i][col.calendar].s])
  /\ manifest' = <<>>
  /\ counts' = EmptyMap
  /\ total_events' = 0
  /\ per_calendar_debug' = <<>>
  /\ ci' = 1
  /\ pc' = "calendars"
  /\ UNCHANGED <<feeds, columns, sheet, col, missing_keys, subset, ri, cal, created,
                 files, manifest_file, index_written, exit_code>>

\* lines 146-148: an empty calendar name is passed over
SkipCalendar ==
  /\ pc = "calendars"
  /\ ci <= Len(cal_order)
  /\ cal_order[ci] = <<>>
  /\ ci' = ci + 1
  /\ UNCHANGED <<feeds, pc, columns, sheet, df, col, missing_keys, cal_order, subset, ri,
                 cal, created, total_events, manifest, counts, per_calendar_debug,
                 files, manifest_file, index_written, exit_code>>

\* lines 149-156
BeginCalendar ==
  /\ pc = "calendars"
  /\ ci <= Len(cal_order)
  /\ cal_order[ci] # <<>>
  /\ LET rows == Subset(df, col.calendar, cal_order[ci])
     IN IF rows = <<>>
        THEN /\ ci' = ci + 1
             /\ UNCHANGED <<pc, subset, ri, cal, created>>
        ELSE /\ subset' = rows
             /\ cal' = [name |-> cal_order[ci], events |-> <<>>]
             /\ created' = 0
             /\ ri' = 1
             /\ pc' = "rows"
             /\ UNCHANGED ci
  /\ UNCHANGED <<feeds, columns, sheet, df, col, missing_keys, cal_order, total_events,
                 manifest, counts, per_calendar_debug, files, manifest_file,
                 index_written, exit_code>>

\* lines 158-230: one pass of the row loop.  cal.events.add(ev) is kept as an
\* append: the container of the ics library is not part of the script.
ProcessRow ==
  /\ pc = "rows"
  /\ ri <= Len(subset)
  /\ LET r == df[subset[ri]]
     IN IF RowSkipped(r, col)
        THEN UNCHANGED <<cal, created, total_events>>
        ELSE /\ cal' = [cal EXCEPT !.events = Append(@, BuildEvent(r, col, subset[ri]))]
             /\ created' = created + 1
             /\ total_events' = total_events + 1
  /\ ri' = ri + 1
  /\ UNCHANGED <<feeds, pc, columns, sheet, df, col, missing_keys, cal_order, ci, subset,
                 manifest, counts, per_calendar_debug, files, manifest_file,
                 index_written, exit_code>>

\* lines 232-247: after the last row of the calendar
WriteCalendar ==
  /\ pc = "rows"
  /\ ri > Len(subset)
  /\ LET slug == slugify(Str(cal.name))
     IN /\ per_calendar_debug' = Append(per_calendar_debug, <<cal.name, created>>)
        /\ files' = (RelIcs(slug) :> cal) @@ files
        /\ feeds' = Append(feeds, cal)
        /\ manifest' = Append(manifest, [name |-> cal.name, slug |-> slug, ics |-> RelIcs(slug)])
        /\ counts' = (cal.name :> created) @@ counts
  /\ ci' = ci + 1
  /\ pc' = "calendars"
  /\ UNCHANGED <<columns, sheet, df, col, missing_keys, cal_order, subset, ri, cal,
                 created, total_events, manifest_file, index_written, exit_code>>

\* the calendar loop is over
EndCalendars ==
  /\ pc = "calendars"
  /\ ci > Len(cal_order)
  /\ pc' = "summary"
  /\ UNCHANGED <<feeds, columns, sheet, df, col, missing_keys, cal_order, ci, subset, ri,
                 cal, created, total_events, manifest, counts, per_calendar_debug,
                 files, manifest_file, index_written, exit_code>>

\* lines 257-259: raise SystemExit(1)
EmptyBuildFailure ==
  /\ pc = "summary"
  /\ total_events = 0
  /\ pc' = "exit"
  /\ exit_code' = 1
  /\ UNCHANGED <<feeds, columns, sheet, df, col, missing_keys, cal_order, ci, subset, ri,
                 cal, created, total_events, manifest, counts, per_calendar_debug,
                 files, manifest_file, index_written>>

\* WriteManifest without the zero-events check before it
WriteManifest_Unchecked ==
  /\ pc = "summary"
  /\ manifest_file' = <<manifest>>
  /\ pc' = "index"
  /\ UNCHANGED <<feeds, columns, sheet, df, col, missing_keys, cal_order, ci, subset, ri,
                 cal, created, total_events, manifest, counts, per_calendar_debug,
                 files, index_written, exit_code>>

\* lines 262-263
WriteManifest ==
  /\ pc = "summary"
  /\ total_events # 0
  /\ manifest_file' = <<manifest>>
  /\ pc' = "index"
  /\ UNCHANGED <<feeds, columns, sheet, df, col, missing_keys, cal_order, ci, subset, ri,
                 cal, created, total_events, manifest, counts, per_calendar_debug,
                 files, index_written, exit_code>>

\* lines 526-531: the landing page, then the script ends
WriteIndex ==
  /\ pc = "index"
  /\ index_written' = TRUE
  /\ pc' = "done"
  /\ exit_code' = 0
  /\ UNCHANGED <<feeds, columns, sheet, df, col, missing_keys, cal_order, ci, subset, ri,
                 cal, created, total_events, manifest, counts, per_calendar_debug,
                 files, manifest_file>>

Next ==
  \/ ResolveHeaders
  \/ ConfigError
  \/ Prepare
  \/ SkipCalendar
  \/ BeginCalendar
  \/ ProcessRow
  \/ WriteCalendar
  \/ EndCalendars
  \/ EmptyBuildFailure
  \/ WriteManifest
  \/ WriteIndex
Spec == Init /\ [][Next]_vars

\* ------------------------------------------------------- what is observed
\* every Event added to a Calendar so far
AllEvents ==
  UNION {Range(feeds[f].events) : f \in 1..Len(feeds)} \cup Range(cal.events)

\* the row loop has run for every calendar
LoopDone == pc \in {"summary", "index", "done"} \/ (pc = "exit" /\ missing_keys = <<>>)

\* the timestamps the cells of sheet row i give
RowStart(i) == StartOf(sheet[i], col)
RowEnd(i) == EndOf(sheet[i], col)

\* cells that hold a truthy token, by inspection of the cell texts
TruthyCells == {Str(T_TRUE), Str(T_Yes), Str(T_Y), Str(T_1)}

\* C1: every event added to a feed ends strictly after it begins: a timed
\* event's end instant is after its begin instant, an all-day event's end
\* date is at least one day after its begin date.
C1_EndAfterBegin ==
  \A e \in AllEvents :
    IF e.all_day THEN e.end >= e.begin + 1 ELSE e.end > e.begin

\* C1 witness: a finished build emitted a timed event for a row whose end
\* cell is not after its start cell; its end is the start plus the default.
C1_Witness ==
  /\ \E e \in AllEvents :
       /\ ~e.all_day
       /\ RowStart(e.idx).some /\ RowEnd(e.idx).some
       /\ RowEnd(e.idx).v <= RowStart(e.idx).v
       /\ e.end = e.begin + DEFAULT_TIMED_DURATION_HOURS
  /\ pc = "done"
\* the calendar name of sheet row i, as the script reads it (cleaned)
RowCalendar(i) == clean_str(sheet[i][col.calendar])

\* the first sheet row whose calendar name is n
FirstRow(n) ==
  CHOOSE i \in 1..Len(sheet) :
    RowCalendar(i) = n /\ \A j \in 1..Len(sheet) : RowCalendar(j) = n => i <= j

\* C2: the manifest lists feeds in the order in which their calendar names
\* first appear in the rows, and no calendar name has two entries.
C2_ManifestFirstSeenOrder ==
  \A i, j \in 1..Len(manifest) :
    i < j =>
      /\ manifest[i].name # manifest[j].name
      /\ \E a, b \in 1..Len(sheet) :
           /\ a = FirstRow(manifest[i].name)
           /\ b = FirstRow(manifest[j].name)
           /\ a < b

\* C2 witness: rows in calendar order A, B, A gave the manifest A, B.
C2_Witness ==
  /\ pc = "done"
  /\ Len(sheet) >= 3
  /\ RowCalendar(1) = RowCalendar(3)
  /\ RowCalendar(1) # RowCalendar(2)
  /\ Len(manifest) = 2
  /\ manifest[1].name = RowCalendar(1)
  /\ manifest[2].name = RowCalendar(2)

\* C3 (as claimed): after a completed build every manifest entry belongs to
\* a feed with at least one event, and every feed with an event has exactly
\* one entry.
C3_ManifestOnlyNonEmptyFeeds ==
  pc = "done" =>
    /\ \A i \in 1..Len(manifest) :
         \E f \in 1..Len(feeds) :
           feeds[f].name = manifest[i].name /\ feeds[f].events # <<>>
    /\ \A f \in 1..Len(feeds) :
         feeds[f].events # <<>> =>
           Cardinality({i \in 1..Len(manifest) : manifest[i].name = feeds[f].name}) = 1
\* whether the hour-of-day of an optional timestamp is 00:00, if present
AbsentOrMidnight(dt) == ~dt.some \/ dt.v % HoursPerDay = 0

\* C4 (as claimed): an event is all-day if the all-day cell is a truthy
\* token; otherwise exactly when its start, if present, is midnight and its
\* end, if present, is midnight; a midnight start with no end gives the one
\* day  start date .. start date + 1.
C4_AllDayClassification ==
  \A e \in AllEvents :
    /\ e.all_day <=>
         \/ (N_All_Day \in Range(columns) /\ sheet[e.idx][N_All_Day] \in TruthyCells)
         \/ (AbsentOrMidnight(RowStart(e.idx)) /\ AbsentOrMidnight(RowEnd(e.idx)))
    /\ (RowStart(e.idx).some /\ AbsentOrMidnight(RowStart(e.idx)) /\ ~RowEnd(e.idx).some)
         => (e.all_day /\ e.begin = RowStart(e.idx).v \div HoursPerDay /\ e.end = e.begin + 1)

\* cells of the Transparent column, by inspection of the cell texts
FreeCellsClaimed == TruthyCells \cup {Str(T_free), Str(N_Transparent)}
BusyCellsClaimed == {Str(T_FALSE), Str(T_0), Str(T_no), Str(T_busy), Str(T_opaque)}

\* C5 (as claimed): free for a token in {true,1,yes,y,free,transparent},
\* busy for a token in {false,0,no,n,busy,opaque}, and not set for any other
\* cell, a blank cell or an absent column.
C5_TransparentTriState ==
  \A e \in AllEvents :
    e.transparent =
      IF N_Transparent \notin Range(columns) THEN "unset"
      ELSE IF sheet[e.idx][N_Transparent] \in FreeCellsClaimed THEN "true"
      ELSE IF sheet[e.idx][N_Transparent] \in BusyCellsClaimed THEN "false"
      ELSE "unset"

\* C5 (amended): with no Transparent column the attribute is not set; with
\* one, the event is free exactly for a token in {true,1,yes,y} (trimmed,
\* any letter case) and busy for every other cell, a blank one included.
C5_TransparentTwoState ==
  \A e \in AllEvents :
    e.transparent =
      IF N_Transparent \notin Range(columns) THEN "unset"
      ELSE IF sheet[e.idx][N_Transparent] \in TruthyCells THEN "true"
      ELSE "false"

\* C5 witness: a finished build emitted an event for a row whose Transparent
\* cell reads "free", and the event is busy.
C5_Witness ==
  \E e \in AllEvents :
    /\ N_Transparent \in Range(columns)
    /\ sheet[e.idx][N_Transparent] = Str(T_free)
    /\ e.transparent = "false"
    /\ pc = "done"

\* the location text a uid digest is taken over
LocText(e) == IF e.location.k = "str" THEN e.location.s ELSE <<>>

\* C6 (as claimed): the uid is the row's own UID cell when that is present
\* and non-empty; otherwise any two events with the same title, the same
\* finalized begin and end and the same location have the same uid.
C6_UidFromNormalizedEvent ==
  /\ \A e \in AllEvents :
       (N_UID \in Range(columns) /\ clean_str(sheet[e.idx][N_UID]) # <<>>)
         => e.uid = SuppliedUid(clean_str(sheet[e.idx][N_UID]))
  /\ \A e1, e2 \in AllEvents :
       ( /\ e1.uid.derived /\ e2.uid.derived
         /\ e1.name = e2.name
         /\ e1.all_day = e2.all_day
         /\ e1.begin = e2.begin
         /\ e1.end = e2.end
         /\ LocText(e1) = LocText(e2) )
       => e1.uid = e2.uid
\* a cell holds text that is not empty once trimmed
TrimmedNonEmpty(x) == x.k = "str" /\ Strip(x.s) # <<>>

\* ... and that text is not "nan" in any letter case
CleanedNonEmpty(x) == TrimmedNonEmpty(x) /\ Lower(Strip(x.s)) # <<"n","a","n">>

\* the events emitted for sheet row i, as (feed, position) pairs
EventsOfRow(i) ==
  {p \in UNION {{<<f, j>> : j \in 1..Len(feeds[f].events)} : f \in 1..Len(feeds)} :
     feeds[p[1]].events[p[2]].idx = i}

\* C7 (as claimed): once the rows are processed, a row has exactly one event
\* if and only if its calendar name is non-empty, its title is non-empty
\* after trimming and its start or end resolves; the event is in the feed of
\* the row's calendar name; total_events is the number of such rows.
C7_RowFilterTrimmed ==
  LoopDone =>
    LET ok(i) == /\ TrimmedNonEmpty(sheet[i][col.calendar])
                 /\ TrimmedNonEmpty(sheet[i][col.title])
                 /\ (RowStart(i).some \/ RowEnd(i).some)
    IN /\ \A i \in 1..Len(sheet) :
            /\ Cardinality(EventsOfRow(i)) = (IF ok(i) THEN 1 ELSE 0)
            /\ \A p \in EventsOfRow(i) : feeds[p[1]].name = Strip(sheet[i][col.calendar].s)
       /\ total_events = Cardinality({i \in 1..Len(sheet) : ok(i)})

\* C7 (amended): the same, with "non-empty" read as the script cleans text:
\* trimmed, and a cell that reads "nan" in any letter case counts as empty;
\* it holds of a build whose required columns resolved.
C7_RowFilterCleaned ==
  LoopDone =>
    LET ok(i) == /\ CleanedNonEmpty(sheet[i][col.calendar])
                 /\ CleanedNonEmpty(sheet[i][col.title])
                 /\ (RowStart(i).some \/ RowEnd(i).some)
    IN /\ \A i \in 1..Len(sheet) :
            /\ Cardinality(EventsOfRow(i)) = (IF ok(i) THEN 1 ELSE 0)
            /\ \A p \in EventsOfRow(i) : feeds[p[1]].name = Strip(sheet[i][col.calendar].s)
       /\ total_events = Cardinality({i \in 1..Len(sheet) : ok(i)})

\* C7 witness: the rows are processed; one row gave an event, one row with a
\* title and a start but a title reading "Nan" gave none, and one row with
\* no start or end gave none.
C7_Witness ==
  /\ LoopDone
  /\ \E i, j, k \in 1..Len(sheet) :
       /\ EventsOfRow(i) # {}
       /\ sheet[j][col.title] = Str(T_Nan) /\ EventsOfRow(j) = {}
       /\ TrimmedNonEmpty(sheet[k][col.title]) /\ ~RowStart(k).some /\ EventsOfRow(k) = {}

\* C8: a build that got past the headers and produced no event ends in
\* failure (exit code 1) with neither the manifest nor the landing page
\* written; a build that produced an event does not fail this way, and the
\* manifest and the page are only ever written after an event was produced.
C8_EmptyBuildFails ==
  /\ (pc = "exit" /\ missing_keys = <<>>) =>
       (AllEvents = {} /\ exit_code = 1 /\ manifest_file = <<>> /\ ~index_written)
  /\ (pc \in {"index", "done"} \/ manifest_file # <<>> \/ index_written) => AllEvents # {}
  /\ pc = "summary" => (total_events = 0 <=> AllEvents = {})
  /\ pc = "done" => (exit_code = 0 /\ manifest_file = <<manifest>> /\ index_written)

\* C8 witness: every row of a two-row sheet lacks a title and the build has
\* failed after writing the (empty) feed files.
C8_Witness ==
  /\ pc = "exit" /\ missing_keys = <<>> /\ exit_code = 1
  /\ Len(sheet) >= 2
  /\ \A i \in 1..Len(sheet) : sheet[i][col.title] = NaN
  /\ feeds # <<>>

\* headers that name the three required fields, by inspection
CalendarHeaders == {N_Calendar, N_Calendar_Name, N_Feed, H_FEED}
TitleHeaders == {N_Title, N_Event, N_Name, H_name}
StartHeaders == {N_Start, N_Start_Date}

RequiredResolved ==
  /\ Range(columns) \cap CalendarHeaders # {}
  /\ Range(columns) \cap TitleHeaders # {}
  /\ Range(columns) \cap StartHeaders # {}

\* C9: if the headers give no calendar column, no title column, or neither
\* a start nor a start-date column, the build stops with an error before any
\* row is cleaned or processed and before any output; if all three are
\* there, no such error is raised.
C9_ConfigFailFast ==
  /\ pc # "resolve" => (missing_keys # <<>> <=> ~RequiredResolved)
  /\ ~RequiredResolved =>
       /\ pc \in {"resolve", "checked", "exit"}
       /\ pc = "exit" => exit_code = 1
       /\ df = sheet /\ cal_order = <<>> /\ cal = NoCalendar /\ feeds = <<>>
       /\ files = EmptyMap /\ manifest = <<>> /\ manifest_file = <<>>
       /\ ~index_written /\ total_events = 0
  /\ (RequiredResolved /\ pc = "exit") => ci = Len(cal_order) + 1

\* C9 witness: a sheet with a calendar and a title column and a row, but
\* only an End column, has stopped with the configuration error.
C9_Witness ==
  /\ pc = "exit" /\ exit_code = 1
  /\ missing_keys = <<"Start OR (Start Date + optional Start Time)">>
  /\ N_End \in Range(columns)
  /\ Len(sheet) = 1

\* the slug the rule gives for text s: with t the lowercased text and P the
\* positions of t in [a-z0-9], the characters at P in order, with one "-"
\* between two of them that are not adjacent in t; "calendar" if P is empty
ExpectedSlug(s) ==
  LET t == Lower(s)
      P == {i \in 1..Len(t) : t[i] \in SlugChars}
      pos(i) == Cardinality({j \in P : j <= i})
                + Cardinality({j \in P : j < i /\ (j + 1) \notin P})
      last == CHOOSE i \in P : \A j \in P : j <= i
  IN IF P = {} THEN <<"c","a","l","e","n","d","a","r">>
     ELSE [n \in 1..pos(last) |->
             IF \E i \in P : pos(i) = n THEN t[CHOOSE i \in P : pos(i) = n] ELSE "-"]

C11_EntryOwnsItsFeedFile ==
  pc = "done" =>
    /\ \A i \in 1..Len(manifest) :
         /\ manifest[i].ics \in DOMAIN files
         /\ files[manifest[i].ics].name = manifest[i].name
         /\ \E f \in 1..Len(feeds) :
              /\ feeds[f].name = manifest[i].name
              /\ files[manifest[i].ics].events = feeds[f].events
         /\ \A j \in 1..Len(files[manifest[i].ics].events) :
              RowCalendar(files[manifest[i].ics].events[j].idx) = manifest[i].name
    /\ \A i, j \in 1..Len(manifest) :
         i # j => (manifest[i].slug # manifest[j].slug /\ manifest[i].ics # manifest[j].ics)
====
